---- MODULE Spec2Model ----
(***************************************************************************)
(* State-machine model of lint-emit: the diff-hunk parser                  *)
(* (get_changed_lines_from_diff), the correlation filter                   *)
(* (get_lint_message), the linter invoker (get_lint_output) and the two    *)
(* run drivers (lib.rs run, main.rs run).                                  *)
(*                                                                         *)
(* Text is modelled as sequences of one-character strings, a diff as the   *)
(* sequence of its lines (what String::lines yields).  A u32 is a pair of  *)
(* 16-bit limbs so that the full 32-bit width is kept.                     *)
(***************************************************************************)
EXTENDS Integers, Sequences, FiniteSets, TLC

\* ------------------------------------------------------------------ bounds

\* Longest diff text (in lines) fed to the parser.
MaxLines == 4

\* ------------------------------------------------------------- u32 values

\* One limb of a u32 holds 16 bits: a u32 is [hi, lo], value hi * 2^16 + lo.
LimbBase == 65536

U32(n) == [hi |-> n \div LimbBase, lo |-> n % LimbBase]

U32Zero == [hi |-> 0, lo |-> 0]

U32Max == [hi |-> LimbBase - 1, lo |-> LimbBase - 1]

\* u + 1 without the overflow case (callers test u = U32Max first).
U32Succ(u) ==
    IF u.lo = LimbBase - 1 THEN [hi |-> u.hi + 1, lo |-> 0]
    ELSE [hi |-> u.hi, lo |-> u.lo + 1]

\* u - 1 without the underflow case (callers test u = U32Zero first).
U32Pred(u) ==
    IF u.lo = 0 THEN [hi |-> u.hi - 1, lo |-> LimbBase - 1]
    ELSE [hi |-> u.hi, lo |-> u.lo - 1]

U32Less(u, v) == u.hi < v.hi \/ (u.hi = v.hi /\ u.lo < v.lo)

\* ------------------------------------------------------------------- text

Digits == <<"0", "1", "2", "3", "4", "5", "6", "7", "8", "9">>

IsDigit(c) == \E i \in 1..10 : Digits[i] = c

DigitVal(c) == (CHOOSE i \in 1..10 : Digits[i] = c) - 1

\* char::is_whitespace on the characters the model uses.
IsSpace(c) == c \in {" ", "\t"}

\* str::starts_with
StartsWith(s, p) == Len(s) >= Len(p) /\ SubSeq(s, 1, Len(p)) = p

\* str::parse::<u32>: an optional leading "+", then one or more ASCII digits,
\* accumulated with checked multiplication and addition.
RECURSIVE ParseDigits(_, _)
ParseDigits(s, acc) ==
    IF ~acc.ok \/ s = <<>> THEN acc
    ELSE IF ~IsDigit(Head(s)) THEN [ok |-> FALSE, val |-> U32Zero]
    ELSE LET lo10  == acc.val.lo * 10 + DigitVal(Head(s))
             hi10  == acc.val.hi * 10 + (lo10 \div LimbBase)
         IN  IF hi10 >= LimbBase THEN [ok |-> FALSE, val |-> U32Zero]
             ELSE ParseDigits(Tail(s),
                      [ok |-> TRUE, val |-> [hi |-> hi10, lo |-> lo10 % LimbBase]])

ParseU32(s) ==
    LET body == IF s # <<>> /\ Head(s) = "+" THEN Tail(s) ELSE s
    IN  IF body = <<>> THEN [ok |-> FALSE, val |-> U32Zero]
        ELSE ParseDigits(body, [ok |-> TRUE, val |-> U32Zero])

\* ------------------------------------------------- get_changed_lines_from_diff

\* Regex \+([0-9]+) applied with find: the leftmost "+" that is followed by a
\* digit, with the longest run of digits after it.  The match keeps the "+".
NoMatch == <<>>

RECURSIVE DigitRun(_, _)
DigitRun(s, i) ==
    IF i <= Len(s) /\ IsDigit(s[i]) THEN DigitRun(s, i + 1) ELSE i - 1

HunkStartFind(line) ==
    LET starts == {i \in 1..Len(line) :
                     line[i] = "+" /\ i < Len(line) /\ IsDigit(line[i + 1])}
    IN  IF starts = {} THEN NoMatch
        ELSE LET i == CHOOSE k \in starts : \A j \in starts : k <= j
             IN  SubSeq(line, i, DigitRun(line, i + 1))

\* Regex ^[-+ ]\s* replaced by "": one leading marker character and the
\* whitespace that follows it are removed.
RECURSIVE SkipSpace(_)
SkipSpace(s) == IF s # <<>> /\ IsSpace(Head(s)) THEN SkipSpace(Tail(s)) ELSE s

Sanitize(line) ==
    IF line # <<>> /\ Head(line) \in {"-", "+", " "} THEN SkipSpace(Tail(line))
    ELSE line

\* The fold's accumulator: the captured counter, the vector built so far and
\* whether an unwrap or an arithmetic check has panicked.
FoldInit == [line_number |-> U32Zero, changed_lines |-> <<>>, panicked |-> FALSE]

Panic(acc) == [acc EXCEPT !.panicked = TRUE]

\* The "@@" branch: line_number = start.parse().unwrap(); line_number -= 1.
\* Subtracting from 0 panics when overflow checks are compiled in and wraps
\* otherwise.
HunkHeader(acc, line, checks) ==
    LET start == HunkStartFind(line)
        parsed == ParseU32(start)
    IN  IF start = NoMatch \/ ~parsed.ok THEN Panic(acc)
        ELSE IF parsed.val = U32Zero
             THEN IF checks THEN Panic(acc)
                  ELSE [acc EXCEPT !.line_number = U32Max]
        ELSE [acc EXCEPT !.line_number = U32Pred(parsed.val)]

\* line_number += 1, with the same two overflow behaviours.
Increment(acc, checks) ==
    IF acc.line_number = U32Max
    THEN IF checks THEN Panic(acc) ELSE [acc EXCEPT !.line_number = U32Zero]
    ELSE [acc EXCEPT !.line_number = U32Succ(acc.line_number)]

\* An added line is pushed with the incremented counter.
PushAdded(acc, line) ==
    [acc EXCEPT !.changed_lines =
        Append(acc.changed_lines,
               [line |-> acc.line_number, source |-> Sanitize(line)])]

\* Which lines advance the counter: those that do not start with "-".
Advances(line) == ~StartsWith(line, <<"-">>)

\* One call of the fold closure.
FoldLine(acc, line, checks) ==
    IF acc.panicked THEN acc
    ELSE IF StartsWith(line, <<"@", "@">>) THEN HunkHeader(acc, line, checks)
    ELSE IF Advances(line)
         THEN LET inc == Increment(acc, checks)
              IN  IF ~inc.panicked /\ StartsWith(line, <<"+">>)
                  THEN PushAdded(inc, line)
                  ELSE inc
    ELSE acc

\* hunk.lines().fold(vec![], ...)
RECURSIVE FoldLines(_, _, _)
FoldLines(acc, lines, checks) ==
    IF lines = <<>> THEN acc
    ELSE FoldLines(FoldLine(acc, Head(lines), checks), Tail(lines), checks)

get_changed_lines_from_diff(hunk, checks) == FoldLines(FoldInit, hunk, checks)

\* ------------------------------------------------------------ diff inputs

\* Lines of `git diff` output, as character sequences.
LineDiffGit == <<"d", "i", "f", "f", " ", "-", "-", "g", "i", "t">>

LineNewFile == <<"+", "+", "+", " ", "b", "/", "f">>

\* @@ -10,4 +20,5 @@
LineHunk20 ==
    <<"@", "@", " ", "-", "1", "0", ",", "4", " ", "+", "2", "0", ",", "5", " ", "@", "@">>

\* @@ -3 +3 @@
LineHunk3 == <<"@", "@", " ", "-", "3", " ", "+", "3", " ", "@", "@">>

\* @@ -1,3 +0,0 @@
LineHunk0 ==
    <<"@", "@", " ", "-", "1", ",", "3", " ", "+", "0", ",", "0", " ", "@", "@">>

\* A line that starts with "@@" and holds no "+<digits>".
LineHunkBad == <<"@", "@", " ", "-", "1", " ", "@", "@">>

LineContext == <<" ", "c">>

LineAdded == <<"+", " ", " ", "x">>

LineRemoved == <<"-", "y">>

\* \ No newline at end of file
LineNoNewline == <<"\\", " ", "N", "o">>

LinePool ==
    {LineDiffGit, LineNewFile, LineHunk20, LineHunk3, LineHunk0,
     LineHunkBad, LineContext, LineAdded, LineRemoved, LineNoNewline}

SeqsUpTo(S, n) == UNION {[1..k -> S] : k \in 0..n}

DiffTexts == SeqsUpTo(LinePool, MaxLines)

\* ------------------------------------------------------------------ paths

\* Option<T>: None is the empty tuple, Some(x) the one-element tuple.
None == <<>>

Some(x) == <<x>>

\* A path is its directory, its file stem and its extension (Path::extension:
\* None when the file name holds no dot).  Two PathBufs are equal when their
\* components are, so "a.rs" and "/r/a.rs" differ.
Path(dir, stem, ext) == [dir |-> dir, stem |-> stem, ext |-> ext]

\* The working directory of the run; absolute paths in the model live in it.
Cwd == "/r"

FileA == Path(Cwd, "a", Some("rs"))

FileB == Path(Cwd, "b", Some("php"))

FileC == Path(Cwd, "c", Some("php"))

FileMake == Path(Cwd, "Makefile", None)

FileNone == Path(Cwd, "x", Some("None"))

\* The same files as a tool run in Cwd prints them: relative.
Relative(p) == [p EXCEPT !.dir = ""]

\* A path that names no file on disk.
FileGone == Path("", "gone", Some("rs"))

ChangedPaths == {FileA, FileB, FileC, FileMake, FileNone}

\* fs::canonicalize: the absolute path of an existing file, an error otherwise.
Canonicalize(p) ==
    IF \E q \in ChangedPaths : Relative(q) = Relative(p)
    THEN Some([p EXCEPT !.dir = Cwd])
    ELSE None

\* ------------------------------------------------------- get_lint_message

\* A regex::Captures value: each named group is None (the group is not in the
\* pattern or did not take part in the match) or Some(text it captured).
Capture(file, line, message) == [file |-> file, line |-> line, message |-> message]

DiffMeta(file, lines) == [file |-> file, changed_lines |-> lines]

\* What a call that may panic leaves: the value it returned, or a panic.
Returned(x) == [panicked |-> FALSE, value |-> x]

Panicked == [panicked |-> TRUE, value |-> None]

\* iter().find(|x| x.line == line): the first element with that line number.
FindLine(lines, line) ==
    LET hits == {i \in 1..Len(lines) : lines[i].line = line}
    IN  IF hits = {} THEN None
        ELSE Some(lines[CHOOSE i \in hits : \A j \in hits : i <= j])

\* Mutation of MessageSource: the text the linter printed is used.
MessageSourceFromMatch(line_meta, message) == message

\* The source text put into an accepted LintMessage.
MessageSource(line_meta, message) == line_meta.source

\* PathBuf::from(cap.name("file")?.as_str()): the file of the candidate.
CandidateFile(cap, diff_meta) == cap.file

\* The filter: diff_meta.file == file && line_meta.is_some()
Accepts(diff_meta, file, line_meta) == diff_meta.file = file /\ line_meta # None

\* Returns Option<LintMessage>; panics when parse::<u32>().unwrap() fails.
get_lint_message(linter, cap, diff_meta) ==
    IF cap.message = None THEN Returned(None)
    ELSE LET file == CandidateFile(cap, diff_meta)
         IN  IF file = None THEN Returned(None)
             ELSE IF cap.line = None THEN Returned(None)
             ELSE LET parsed == ParseU32(cap.line[1])
                  IN  IF ~parsed.ok THEN Panicked
                      ELSE LET line_meta == FindLine(diff_meta.changed_lines, parsed.val)
                           IN  IF Accepts(diff_meta, file[1], line_meta)
                               THEN Returned(Some(
                                        [linter  |-> linter,
                                         source  |-> MessageSource(line_meta[1], cap.message[1]),
                                         message |-> cap.message[1],
                                         file    |-> file[1],
                                         line    |-> parsed.val]))
                               ELSE Returned(None)

\* -------------------------------------------------------- get_lint_output

\* What a spawned process leaves behind.  A stream is bytes that are valid
\* UTF-8 or not; a valid text is modelled by the sequence of the matches a
\* linter regex finds in it (captures), the empty sequence being the empty
\* text.  Invalid bytes are never empty.
Stream(valid, text) == [valid |-> valid, text |-> text]

InvalidUtf8 == Stream(FALSE, <<>>)

IsEmpty(stream) == stream.valid /\ stream.text = <<>>

Process(spawned, stdout, stderr, status) ==
    [spawned |-> spawned, stdout |-> stdout, stderr |-> stderr, status |-> status]

\* The stream each arm of the match reads.
StreamOf(linter, output) ==
    CASE linter = "clippy" -> output.stderr
      [] linter = "phpmd"  -> output.stdout
      [] linter = "phpcs"  -> output.stdout
      [] OTHER             -> output.stderr

IoError == "io-error"

Utf8Error == "utf8-error"

Ok(x) == [ok |-> TRUE, val |-> x, err |-> ""]

Err(e) == [ok |-> FALSE, val |-> <<>>, err |-> e]

\* Command::new(..).output()? then String::from_utf8(output)?
get_lint_output(linter, proc) ==
    IF ~proc.spawned THEN Err(IoError)
    ELSE LET output == StreamOf(linter, proc)
         IN  IF ~output.valid THEN Err(Utf8Error) ELSE Ok(output.text)

\* ------------------------------------------------------ get_lint_messages

KnownLinters == {"clippy", "phpmd", "phpcs"}

\* re.captures_iter(&output): the three built-in patterns yield the matches
\* of the text with all their groups; the pattern r"" of every other name
\* matches everywhere and has no named group.
CapturesIter(name, text) ==
    IF name \in KnownLinters THEN text
    ELSE [i \in 1..Len(text) |-> Capture(None, None, None)]

\* State of one get_lint_messages call: the vector built so far, whether a
\* `?` has returned Err, whether an unwrap has panicked.
LintInit == [messages |-> <<>>, failed |-> "", panicked |-> FALSE]

\* The inner loop over the captures of one linter's output.
RECURSIVE MatchLoop(_, _, _, _)
MatchLoop(acc, name, caps, meta) ==
    IF caps = <<>> \/ acc.panicked THEN acc
    ELSE LET r == get_lint_message(name, Head(caps), meta)
         IN  IF r.panicked THEN [acc EXCEPT !.panicked = TRUE]
             ELSE IF r.value = None THEN MatchLoop(acc, name, Tail(caps), meta)
             ELSE MatchLoop([acc EXCEPT !.messages = Append(@, r.value[1])],
                            name, Tail(caps), meta)

\* One iteration of `for linter in linters`: the subprocess `p` is what the
\* linter's command did.
LintWith(acc, name, meta, p) ==
    IF acc.panicked \/ acc.failed # "" THEN acc
    ELSE LET output == get_lint_output(name, p)
         IN  IF ~output.ok THEN [acc EXCEPT !.failed = output.err]
             ELSE MatchLoop(acc, name, CapturesIter(name, output.val), meta)

\* The whole call: names[i] is run as process procs[i].
RECURSIVE LintLoop(_, _, _, _)
LintLoop(acc, names, meta, procs) ==
    IF names = <<>> THEN acc
    ELSE LintLoop(LintWith(acc, Head(names), meta, Head(procs)),
                  Tail(names), meta, Tail(procs))

get_lint_messages(names, meta, procs) == LintLoop(LintInit, names, meta, procs)

\* ------------------------------------------------------ get_changed_lines

\* get_diff and get_changed_lines: `git` is what the git process did, its
\* stdout a stream whose text is the diff's lines.  Err on a failed spawn or
\* invalid UTF-8; the parser may panic.
get_changed_lines(file, git, checks) ==
    IF ~git.spawned THEN [panicked |-> FALSE, failed |-> IoError, meta |-> None]
    ELSE IF ~git.stdout.valid
         THEN [panicked |-> FALSE, failed |-> Utf8Error, meta |-> None]
    ELSE LET parsed == get_changed_lines_from_diff(git.stdout.text, checks)
         IN  IF parsed.panicked
             THEN [panicked |-> TRUE, failed |-> "", meta |-> None]
             ELSE [panicked |-> FALSE, failed |-> "",
                   meta |-> Some(DiffMeta(file, parsed.changed_lines))]

\* get_changed_files: the names git printed, canonicalized; names that do
\* not resolve are dropped (filter_map).
RECURSIVE CanonicalFiles(_)
CanonicalFiles(names) ==
    IF names = <<>> THEN <<>>
    ELSE LET c == Canonicalize(Head(names))
         IN  (IF c = None THEN <<>> ELSE <<c[1]>>) \o CanonicalFiles(Tail(names))

\* ------------------------------------------------------------- dispatcher

\* LinterConfig as main.rs uses it: its name and its ext list.
LinterConfig(name, ext) == [name |-> name, ext |-> ext]

\* The sort and group key of run: the extension, or "None" without one.
ExtKey(file) == IF file.ext = None THEN "None" ELSE file.ext[1]

\* The byte order of the extension keys of the model's files.
KeyOrder == <<"None", "php", "rs">>

Contains(seq, x) == \E i \in 1..Len(seq) : seq[i] = x

\* get_valid_linters: the configs whose ext list contains the key, in order.
RECURSIVE get_valid_linters(_, _)
get_valid_linters(ext, configs) ==
    IF configs = <<>> THEN <<>>
    ELSE (IF Contains(Head(configs).ext, ext) THEN <<Head(configs)>> ELSE <<>>)
             \o get_valid_linters(ext, Tail(configs))

\* sorted_by_key (stable) then group_by: the indices of the files of each
\* key, keys in byte order, files in their original order.
RECURSIVE Select(_, _, _)
Select(files, key, i) ==
    IF i > Len(files) THEN <<>>
    ELSE (IF ExtKey(files[i]) = key THEN <<i>> ELSE <<>>) \o Select(files, key, i + 1)

RECURSIVE GroupsFrom(_, _)
GroupsFrom(files, k) ==
    IF k > Len(KeyOrder) THEN <<>>
    ELSE LET members == Select(files, KeyOrder[k], 1)
         IN  (IF members = <<>> THEN <<>>
              ELSE <<[ext |-> KeyOrder[k], members |-> members]>>)
                 \o GroupsFrom(files, k + 1)

Groups(files) == GroupsFrom(files, 1)
\* ----------------------------------------------------- inputs of the calls

\* Longest diff text behind a DiffMeta handed to get_lint_message.
MaxMetaLines == 3

LinterNames == {"clippy", "phpmd", "phpcs", "eslint"}

\* The shape of `git diff` output for one file.
IsHunkHeader(l) == StartsWith(l, <<"@", "@">>)

\* The index of the hunk header that governs line i, 0 before the first hunk.
HeaderOf(h, i) ==
    LET hs == {j \in 1..(i - 1) : IsHunkHeader(h[j])}
    IN  IF hs = {} THEN 0 ELSE CHOOSE j \in hs : \A k \in hs : k <= j

\* Above the first hunk header a diff holds its file-header lines; below it
\* only hunk headers, context, added and removed lines, and a
\* "\ No newline at end of file" marker only right after one of those lines.
FileHeaderLines == {LineDiffGit, LineNewFile}

IsBodyLine(l) == l # <<>> /\ Head(l) \in {" ", "+", "-"}

WellFormedHunks(h) ==
    \A i \in 1..Len(h) :
        IF HeaderOf(h, i) = 0 /\ ~IsHunkHeader(h[i]) THEN h[i] \in FileHeaderLines
        ELSE \/ IsHunkHeader(h[i])
             \/ IsBodyLine(h[i])
             \/ (h[i] = LineNoNewline /\ IsBodyLine(h[i - 1]))

\* The diff texts git can print, up to n lines.
GitDiffs(n) == {d \in SeqsUpTo(LinePool, n) : WellFormedHunks(d)}

\* The vectors the parser returns for them.
ChangeSets(n, checks) ==
    LET outs == {get_changed_lines_from_diff(d, checks) : d \in GitDiffs(n)}
    IN  {o.changed_lines : o \in {x \in outs : ~x.panicked}}

\* DiffMeta.file comes from get_changed_files, which canonicalizes.
DiffMetas(n, checks) ==
    {DiffMeta(f, ls) : f \in {FileA, FileB}, ls \in ChangeSets(n, checks)}

\* What the `line` group (\d*) captures: digits, possibly none.
LineTexts ==
    {<<>>, <<"1">>, <<"3">>, <<"0", "3">>, <<"4">>, <<"2", "0">>,
     <<"4", "2", "9", "4", "9", "6", "7", "2", "9", "6">>}

MessageTexts == {<<>>, <<"m">>}

CaptureFiles == {FileA, Relative(FileA), FileB}

OptionOf(S) == {None} \cup {Some(x) : x \in S}

Captures ==
    {Capture(f, l, m) : f \in OptionOf(CaptureFiles), l \in OptionOf(LineTexts),
                        m \in OptionOf(MessageTexts)}

\* Output streams of a linter process.
Texts == {<<>>, <<Capture(Some(FileA), Some(<<"3">>), Some(<<"m">>))>>,
          <<Capture(Some(FileB), Some(<<"1">>), Some(<<"m">>))>>}

Streams == {Stream(TRUE, t) : t \in Texts} \cup {InvalidUtf8}

Processes ==
    {Process(sp, so, se, st) : sp \in BOOLEAN, so \in Streams, se \in Streams,
                               st \in {0, 1}}

\* ------------------------------------------------------ inputs of the runs

\* Most files `git diff --name-only` lists in a modelled run.
MaxFiles == 2

\* The names git prints are relative to the working directory.
NamePool == {Relative(p) : p \in ChangedPaths} \cup {FileGone}

NameLists ==
    {ns \in SeqsUpTo(NamePool, MaxFiles) :
        \A i, j \in 1..Len(ns) : i # j => ns[i] # ns[j]}

EmptyText == Stream(TRUE, <<>>)

\* What `git diff <range> --name-only` did.
NameOutcomes ==
    {Process(FALSE, EmptyText, EmptyText, 1), Process(TRUE, InvalidUtf8, EmptyText, 0)}
        \cup {Process(TRUE, Stream(TRUE, ns), EmptyText, 0) : ns \in NameLists}

\* Diff texts of one file: a line added after the file header; the last line
\* replaced in a file without trailing newline; a binary file; a hunk header
\* without a new-start number; a file emptied.
DiffAdded == <<LineDiffGit, LineNewFile, LineHunk3, LineAdded>>

DiffReplaced == <<LineNewFile, LineHunk3, LineRemoved, LineNoNewline, LineAdded>>

DiffBinary == <<LineDiffGit>>

DiffBadHeader == <<LineDiffGit, LineNewFile, LineHunkBad>>

DiffEmptied == <<LineDiffGit, LineHunk0, LineRemoved>>

RunDiffs == {DiffAdded, DiffReplaced, DiffBinary, DiffBadHeader, DiffEmptied}

\* What `git diff <range> <file>` did.
DiffOutcomes ==
    {Process(FALSE, EmptyText, EmptyText, 1), Process(TRUE, InvalidUtf8, EmptyText, 0)}
        \cup {Process(TRUE, Stream(TRUE, d), EmptyText, 0) : d \in RunDiffs}

\* What a linter run on `file` printed: nothing; a violation on line 3; one on
\* line 2 and one on line 3; a match whose line group is empty; bytes that
\* are not UTF-8.
Violation(file, line) == Capture(Some(file), Some(line), Some(<<"m">>))

RunStreams(file) ==
    {EmptyText,
     Stream(TRUE, <<Violation(file, <<"3">>)>>),
     Stream(TRUE, <<Violation(file, <<"2">>), Violation(file, <<"3">>)>>),
     Stream(TRUE, <<Violation(file, <<>>)>>),
     InvalidUtf8}

\* What a linter process did: it could not be spawned, or it wrote one of the
\* streams to stdout or to stderr and exited with some status.
RunProcesses(file) ==
    {Process(FALSE, EmptyText, EmptyText, 1)}
        \cup {Process(TRUE, s, EmptyText, st) : s \in RunStreams(file), st \in {0, 1}}
        \cup {Process(TRUE, EmptyText, s, st) : s \in RunStreams(file), st \in {0, 1}}

\* The linters given to lib.rs run, by name.
LinterLists == {<<"phpcs">>, <<"clippy">>, <<"phpmd", "phpcs">>}

\* The LinterConfigs given to main.rs run.
ConfigPhpcs == LinterConfig("phpcs", <<"php">>)

ConfigPhpmd == LinterConfig("phpmd", <<"php">>)

ConfigClippy == LinterConfig("clippy", <<"rs">>)

\* A linter configured for files named *.None.
ConfigNoneExt == LinterConfig("eslint", <<"None">>)

ConfigLists ==
    {<<ConfigPhpcs>>, <<ConfigClippy, ConfigPhpcs>>, <<ConfigPhpmd, ConfigPhpcs>>,
     <<ConfigNoneExt>>}
\* ------------------------------------------------------------------ state

VARIABLES
    overflow_checks,  \* whether the build panics on integer overflow
    hunk,             \* parser: the diff text, as lines
    pos,              \* parser: lines folded so far
    line_number,      \* parser: the closure's captured counter
    changed_lines,    \* parser: the vector being built
    diff_pc,          \* parser: "idle", "fold", "ok" (returned) or "panic"
    linter,           \* get_lint_message / get_lint_output: the linter name
    cap,              \* get_lint_message: the regex capture
    diff_meta,        \* get_lint_message: the file's DiffMeta
    lint_message,     \* get_lint_message: what it returned
    msg_pc,           \* get_lint_message: "idle", "call" or "done"
    proc,             \* get_lint_output: what the subprocess did
    lint_output,      \* get_lint_output: what it returned
    out_pc,           \* get_lint_output: "idle", "call" or "done"
    run_pc,           \* run: where the driver stands
    linters,          \* run: the linters given to run
    changed_files,    \* run: what get_changed_files returned
    diff_texts,       \* run: the diff text git printed for each file
    diff_metas,       \* run: Option<DiffMeta> of each file
    file_idx,         \* run: files (lib.rs) or buckets (main.rs) finished
    tasks,            \* main.rs run: the parallel per-file tasks of a bucket
    lint_messages,    \* run: the collected Vec<LintMessage>
    skipped,          \* main.rs run: extension keys printed as "Skipping"
    invoked,          \* main.rs run: how often each (file, linter) was spawned
    accepted,         \* main.rs run: the bag of LintMessages the linters accepted
    failure           \* run: the first per-unit failure, if any

diffVars == <<hunk, pos, line_number, changed_lines, diff_pc>>

msgVars == <<cap, diff_meta, lint_message, msg_pc>>

outVars == <<proc, lint_output, out_pc>>

runVars ==
    <<run_pc, linters, changed_files, diff_texts, diff_metas, file_idx, tasks,
      lint_messages, skipped, invoked, accepted, failure>>

vars == <<overflow_checks, linter, diffVars, msgVars, outVars, runVars>>

\* Each specification below drives one part and leaves the others idle.
DiffIdle ==
    /\ hunk = <<>>
    /\ pos = 0
    /\ line_number = U32Zero
    /\ changed_lines = <<>>
    /\ diff_pc = "idle"

MsgIdle ==
    /\ cap = None
    /\ diff_meta = None
    /\ lint_message = None
    /\ msg_pc = "idle"

OutIdle ==
    /\ proc = None
    /\ lint_output = None
    /\ out_pc = "idle"

RunIdle ==
    /\ run_pc = "idle"
    /\ linters = <<>>
    /\ changed_files = <<>>
    /\ diff_texts = <<>>
    /\ diff_metas = <<>>
    /\ file_idx = 0
    /\ tasks = <<>>
    /\ lint_messages = <<>>
    /\ skipped = {}
    /\ invoked = <<>>
    /\ accepted = <<>>
    /\ failure = None

\* ------------------------------------------------------ parser, step by step

DiffInit ==
    /\ overflow_checks \in BOOLEAN
    /\ hunk \in DiffTexts
    /\ pos = 0
    /\ line_number = FoldInit.line_number
    /\ changed_lines = FoldInit.changed_lines
    /\ diff_pc = "fold"
    /\ linter = None
    /\ MsgIdle
    /\ OutIdle
    /\ RunIdle

\* The closure runs on the next line of the text.
FoldStep ==
    /\ diff_pc = "fold"
    /\ pos < Len(hunk)
    /\ LET acc == [line_number |-> line_number, changed_lines |-> changed_lines,
                   panicked |-> FALSE]
           new == FoldLine(acc, hunk[pos + 1], overflow_checks)
       IN  /\ line_number' = new.line_number
           /\ changed_lines' = new.changed_lines
           /\ diff_pc' = IF new.panicked THEN "panic" ELSE "fold"
    /\ pos' = pos + 1
    /\ UNCHANGED <<overflow_checks, hunk, linter, msgVars, outVars, runVars>>

\* Ok(changed_lines)
FoldReturn ==
    /\ diff_pc = "fold"
    /\ pos = Len(hunk)
    /\ diff_pc' = "ok"
    /\ UNCHANGED <<overflow_checks, hunk, pos, line_number, changed_lines>>
    /\ UNCHANGED <<linter, msgVars, outVars, runVars>>

DiffNext == FoldStep \/ FoldReturn

SpecDiff == DiffInit /\ [][DiffNext]_vars

\* ------------------------------------------- get_lint_message, one call

MsgInit ==
    /\ overflow_checks \in BOOLEAN
    /\ diff_meta \in DiffMetas(MaxMetaLines, overflow_checks)
    /\ linter \in LinterNames
    /\ cap \in Captures
    /\ lint_message = None
    /\ msg_pc = "call"
    /\ DiffIdle
    /\ OutIdle
    /\ RunIdle

GetLintMessage ==
    /\ msg_pc = "call"
    /\ lint_message' = get_lint_message(linter, cap, diff_meta)
    /\ msg_pc' = "done"
    /\ UNCHANGED <<overflow_checks, linter, cap, diff_meta, diffVars, outVars, runVars>>

MsgNext == GetLintMessage

SpecMsg == MsgInit /\ [][MsgNext]_vars

\* -------------------------------------------- get_lint_output, one call

OutInit ==
    /\ overflow_checks \in BOOLEAN
    /\ linter \in LinterNames
    /\ proc \in Processes
    /\ lint_output = None
    /\ out_pc = "call"
    /\ DiffIdle
    /\ MsgIdle
    /\ RunIdle

GetLintOutput ==
    /\ out_pc = "call"
    /\ lint_output' = get_lint_output(linter, proc)
    /\ out_pc' = "done"
    /\ UNCHANGED <<overflow_checks, linter, proc, diffVars, msgVars, runVars>>

OutNext == GetLintOutput

SpecOut == OutInit /\ [][OutNext]_vars

\* --------------------------------------------------------- run of lib.rs

Failure(stage, file, cause) == [stage |-> stage, file |-> file, cause |-> cause]

Nones(n) == [i \in 1..n |-> None]

\* The first index whose DiffMeta is still to be computed, 0 when none is.
NextUnset(metas) ==
    LET unset == {i \in 1..Len(metas) : metas[i] = None}
    IN  IF unset = {} THEN 0 ELSE CHOOSE i \in unset : \A j \in unset : i <= j

LibInit ==
    /\ overflow_checks \in BOOLEAN
    /\ linters \in LinterLists
    /\ run_pc = "start"
    /\ changed_files = <<>>
    /\ diff_texts = <<>>
    /\ diff_metas = <<>>
    /\ file_idx = 0
    /\ tasks = <<>>
    /\ lint_messages = <<>>
    /\ skipped = {}
    /\ invoked = <<>>
    /\ accepted = <<>>
    /\ failure = None
    /\ linter = None
    /\ DiffIdle
    /\ MsgIdle
    /\ OutIdle

\* let changed_files = get_changed_files(commit_range)?
GetChangedFiles ==
    /\ run_pc = "start"
    /\ \E git \in NameOutcomes :
        IF ~git.spawned \/ ~git.stdout.valid
        THEN /\ run_pc' = "err"
             /\ UNCHANGED <<changed_files, diff_texts, diff_metas>>
        ELSE /\ changed_files' = CanonicalFiles(git.stdout.text)
             /\ diff_texts' = Nones(Len(changed_files'))
             /\ diff_metas' = Nones(Len(changed_files'))
             /\ run_pc' = "lines"
    /\ UNCHANGED <<overflow_checks, linter, linters, file_idx, tasks, lint_messages,
                   skipped, invoked, accepted, failure, diffVars, msgVars, outVars>>

\* get_changed_lines(commit_range, file).unwrap() for file i
ChangedLinesOf(i) ==
    \E git \in DiffOutcomes :
        LET r == get_changed_lines(changed_files[i], git, overflow_checks)
        IN  /\ diff_texts' = [diff_texts EXCEPT ![i] =
                                 IF git.spawned /\ git.stdout.valid
                                 THEN Some(git.stdout.text) ELSE None]
            /\ IF r.panicked \/ r.failed # ""
               THEN /\ run_pc' = "panic"
                    /\ failure' = Some(Failure("lines", changed_files[i],
                                               IF r.panicked THEN "panic" ELSE r.failed))
                    /\ UNCHANGED diff_metas
               ELSE /\ diff_metas' = [diff_metas EXCEPT ![i] = r.meta]
                    /\ UNCHANGED <<run_pc, failure>>

\* The sequential map of lib.rs: the files in order.
LibGetChangedLines ==
    /\ run_pc = "lines"
    /\ NextUnset(diff_metas) # 0
    /\ ChangedLinesOf(NextUnset(diff_metas))
    /\ UNCHANGED <<overflow_checks, linter, linters, changed_files, file_idx, tasks,
                   lint_messages, skipped, invoked, accepted, diffVars, msgVars, outVars>>

\* .collect(): every DiffMeta is there.
CollectDiffMetas ==
    /\ run_pc = "lines"
    /\ NextUnset(diff_metas) = 0
    /\ run_pc' = "lint"
    /\ UNCHANGED <<overflow_checks, linter, linters, changed_files, diff_texts,
                   diff_metas, file_idx, tasks, lint_messages, skipped, invoked, accepted,
                   failure, diffVars, msgVars, outVars>>

\* get_lint_messages(&linters, &diff_meta, &logger).unwrap() for the next file
LibGetLintMessages ==
    /\ run_pc = "lint"
    /\ file_idx < Len(diff_metas)
    /\ LET meta == diff_metas[file_idx + 1][1]
       IN  \E procs \in [1..Len(linters) -> RunProcesses(meta.file)] :
               LET r == get_lint_messages(linters, meta, procs)
               IN  IF r.panicked \/ r.failed # ""
                   THEN /\ run_pc' = "panic"
                        /\ failure' = Some(Failure("lint", meta.file,
                                                   IF r.panicked THEN "panic" ELSE r.failed))
                        /\ UNCHANGED <<lint_messages, file_idx>>
                   ELSE /\ lint_messages' = lint_messages \o r.messages
                        /\ file_idx' = file_idx + 1
                        /\ UNCHANGED <<run_pc, failure>>
    /\ UNCHANGED <<overflow_checks, linter, linters, changed_files, diff_texts,
                   diff_metas, tasks, skipped, invoked, accepted, diffVars, msgVars, outVars>>

\* display::render(lint_messages); Ok(())
LibRender ==
    /\ run_pc = "lint"
    /\ file_idx = Len(diff_metas)
    /\ run_pc' = "done"
    /\ UNCHANGED <<overflow_checks, linter, linters, changed_files, diff_texts,
                   diff_metas, file_idx, tasks, lint_messages, skipped, invoked, accepted,
                   failure, diffVars, msgVars, outVars>>

LibNext ==
    \/ GetChangedFiles
    \/ LibGetChangedLines
    \/ CollectDiffMetas
    \/ LibGetLintMessages
    \/ LibRender

SpecRun == LibInit /\ [][LibNext]_vars

\* --------------------------------------------------------- run of main.rs

MainInit ==
    /\ overflow_checks \in BOOLEAN
    /\ linters \in ConfigLists
    /\ run_pc = "start"
    /\ changed_files = <<>>
    /\ diff_texts = <<>>
    /\ diff_metas = <<>>
    /\ file_idx = 0
    /\ tasks = <<>>
    /\ lint_messages = <<>>
    /\ skipped = {}
    /\ invoked = <<>>
    /\ accepted = <<>>
    /\ failure = None
    /\ linter = None
    /\ DiffIdle
    /\ MsgIdle
    /\ OutIdle

\* changed_files.par_iter().map(|file| get_changed_lines(..).unwrap()): the
\* files in any order.
MainGetChangedLines ==
    /\ run_pc = "lines"
    /\ \E i \in 1..Len(diff_metas) : diff_metas[i] = None /\ ChangedLinesOf(i)
    /\ UNCHANGED <<overflow_checks, linter, linters, changed_files, file_idx, tasks,
                   lint_messages, skipped, invoked, accepted, diffVars, msgVars, outVars>>

\* .collect(), then sorted_by_key and group_by on the extension key.
SortAndGroup ==
    /\ run_pc = "lines"
    /\ NextUnset(diff_metas) = 0
    /\ run_pc' = "bucket"
    /\ UNCHANGED <<overflow_checks, linter, linters, changed_files, diff_texts,
                   diff_metas, file_idx, tasks, lint_messages, skipped, invoked, accepted,
                   failure, diffVars, msgVars, outVars>>

\* The extension buckets of the run, and the one the flat_map is at.
Buckets == Groups([i \in 1..Len(diff_metas) |-> diff_metas[i][1].file])

Bucket == Buckets[file_idx + 1]

ValidLinters == get_valid_linters(Bucket.ext, linters)

\* The `true` arm: no linter for the bucket, "Skipping" is printed.
SkipBucket ==
    /\ run_pc = "bucket"
    /\ file_idx < Len(Buckets)
    /\ ValidLinters = <<>>
    /\ skipped' = skipped \cup {Bucket.ext}
    /\ file_idx' = file_idx + 1
    /\ UNCHANGED <<overflow_checks, linter, linters, changed_files, diff_texts,
                   diff_metas, tasks, lint_messages, run_pc, invoked, accepted, failure,
                   diffVars, msgVars, outVars>>

\* The `false` arm: one parallel task per file of the bucket.
StartBucket ==
    /\ run_pc = "bucket"
    /\ file_idx < Len(Buckets)
    /\ ValidLinters # <<>>
    /\ tasks' = [i \in {Bucket.members[k] : k \in 1..Len(Bucket.members)} |->
                    [pc |-> "run", next |-> 1, acc |-> LintInit]]
    /\ run_pc' = "tasks"
    /\ UNCHANGED <<overflow_checks, linter, linters, changed_files, diff_texts,
                   diff_metas, file_idx, lint_messages, skipped, invoked, accepted, failure,
                   diffVars, msgVars, outVars>>

BagAdd(bag, x) ==
    IF x \in DOMAIN bag THEN [bag EXCEPT ![x] = @ + 1] ELSE bag @@ (x :> 1)

\* The bag with every element of the sequence added.
RECURSIVE BagAddAll(_, _)
BagAddAll(bag, xs) ==
    IF xs = <<>> THEN bag ELSE BagAddAll(BagAdd(bag, Head(xs)), Tail(xs))

\* get_lint_messages_for_file of task i, one linter of the loop per step: the
\* command is spawned, its output matched and filtered.  An Err of
\* get_lint_messages is turned into a panic.  `invoked` and `accepted`
\* record the spawn and the messages that passed the filter.
TaskStep(i) ==
    /\ run_pc = "tasks"
    /\ tasks[i].pc = "run"
    /\ LET meta == diff_metas[i][1]
           name == ValidLinters[tasks[i].next].name
       IN  /\ invoked' = BagAdd(invoked, <<meta.file, name>>)
           /\ \E p \in RunProcesses(meta.file) :
               LET acc == LintWith(tasks[i].acc, name, meta, p)
                   bad == acc.panicked \/ acc.failed # ""
               IN  /\ tasks' = [tasks EXCEPT ![i] =
                                  [pc   |-> IF bad THEN "panic"
                                            ELSE IF tasks[i].next = Len(ValidLinters)
                                                 THEN "done" ELSE "run",
                                   next |-> tasks[i].next + 1,
                                   acc  |-> acc]]
                   /\ accepted' = BagAddAll(accepted,
                                       SubSeq(acc.messages,
                                              Len(tasks[i].acc.messages) + 1,
                                              Len(acc.messages)))
                   /\ failure' = IF bad /\ failure = None
                                 THEN Some(Failure("lint", meta.file,
                                           IF acc.panicked THEN "panic" ELSE acc.failed))
                                 ELSE failure
    /\ UNCHANGED <<overflow_checks, linter, linters, changed_files, diff_texts,
                   diff_metas, file_idx, lint_messages, skipped, run_pc,
                   diffVars, msgVars, outVars>>

RunTask == \E i \in DOMAIN tasks : TaskStep(i)

\* The messages of the bucket's tasks, in the order of its files.
RECURSIVE Flatten(_, _)
Flatten(ts, members) ==
    IF members = <<>> THEN <<>>
    ELSE ts[Head(members)].acc.messages \o Flatten(ts, Tail(members))

\* .collect::<Vec<LintMessage>>() of the bucket: every task has returned.
JoinBucket ==
    /\ run_pc = "tasks"
    /\ \A i \in DOMAIN tasks : tasks[i].pc = "done"
    /\ lint_messages' = lint_messages \o Flatten(tasks, Bucket.members)
    /\ file_idx' = file_idx + 1
    /\ tasks' = <<>>
    /\ run_pc' = "bucket"
    /\ UNCHANGED <<overflow_checks, linter, linters, changed_files, diff_texts,
                   diff_metas, skipped, invoked, accepted, failure, diffVars, msgVars, outVars>>

\* A panic of a task unwinds through the parallel iterator into run and main.
PropagatePanic ==
    /\ run_pc = "tasks"
    /\ \E i \in DOMAIN tasks : tasks[i].pc = "panic"
    /\ run_pc' = "panic"
    /\ UNCHANGED <<overflow_checks, linter, linters, changed_files, diff_texts,
                   diff_metas, file_idx, tasks, lint_messages, skipped, invoked, accepted,
                   failure, diffVars, msgVars, outVars>>

\* display::render(lint_messages); Ok(())
MainRender ==
    /\ run_pc = "bucket"
    /\ file_idx = Len(Buckets)
    /\ run_pc' = "done"
    /\ UNCHANGED <<overflow_checks, linter, linters, changed_files, diff_texts,
                   diff_metas, file_idx, tasks, lint_messages, skipped, invoked, accepted,
                   failure, diffVars, msgVars, outVars>>

Next ==
    \/ GetChangedFiles
    \/ MainGetChangedLines
    \/ SortAndGroup
    \/ SkipBucket
    \/ StartBucket
    \/ RunTask
    \/ JoinBucket
    \/ PropagatePanic
    \/ MainRender

Spec == MainInit /\ [][Next]_vars

\* ================================================================= claims

\* ---- the unified-diff format, read independently of the parser

RECURSIVE Decimal(_, _)
Decimal(s, n) == IF s = <<>> THEN n ELSE Decimal(Tail(s), n * 10 + DigitVal(Head(s)))

\* N of a header "@@ -a,b +N,c @@" (the pool's valid headers hold small N).
NewStart(l) == Decimal(Tail(HunkStartFind(l)), 0)

\* The added lines of the hunks: "+" lines below a hunk header.
AddedIdx(h) ==
    {i \in 1..Len(h) : HeaderOf(h, i) > 0 /\ StartsWith(h[i], <<"+">>)}

\* Lines that exist in the post-change file: context and added lines.
InNewFile(l) == l # <<>> /\ Head(l) \in {" ", "+"}

\* The 1-based position of hunk line i in the post-change file.
NewFilePos(h, i) ==
    NewStart(h[HeaderOf(h, i)])
        + Cardinality({j \in (HeaderOf(h, i) + 1)..(i - 1) : InNewFile(h[j])})

Kth(S, k) == CHOOSE i \in S : Cardinality({j \in S : j <= i}) = k

\* The input lines the parser pushed an entry for, in order: entry k comes
\* from the k-th line that starts with "+".
PushedIdx(h) == {i \in 1..Len(h) : StartsWith(h[i], <<"+">>)}

\* C2: every ChangedLine emitted for an added line of a hunk carries that
\* line's 1-based position in the post-change file (newStart plus the context
\* and added lines before it in the hunk), for every well-formed hunk body,
\* "\ No newline at end of file" markers included.
C2_LineNumberIsNewFilePosition ==
    (diff_pc = "ok" /\ WellFormedHunks(hunk)) =>
        \A k \in 1..Len(changed_lines) :
            LET i == Kth(PushedIdx(hunk), k)
            IN  i \in AddedIdx(hunk) =>
                    changed_lines[k].line = U32(NewFilePos(hunk, i))

\* C2, without the marker lines: the numbering is right on hunk bodies made
\* of context, added and removed lines only.
C2_RightWithoutMarker ==
    (/\ diff_pc = "ok"
     /\ WellFormedHunks(hunk)
     /\ \A i \in 1..Len(hunk) : hunk[i] # LineNoNewline) =>
        \A k \in 1..Len(changed_lines) :
            LET i == Kth(PushedIdx(hunk), k)
            IN  i \in AddedIdx(hunk) =>
                    changed_lines[k].line = U32(NewFilePos(hunk, i))

\* C3: the parser emits exactly one ChangedLine per added line of a hunk, in
\* input order, nothing for the lines before the first hunk header, and
\* nothing at all for a text without a hunk header.
C3_OneEntryPerAddedLine ==
    (diff_pc = "ok" /\ WellFormedHunks(hunk)) =>
        /\ Len(changed_lines) = Cardinality(AddedIdx(hunk))
        /\ \A k \in 1..Len(changed_lines) :
               k <= Cardinality(AddedIdx(hunk)) =>
                   changed_lines[k].source = Sanitize(hunk[Kth(AddedIdx(hunk), k)])
        /\ ((\A i \in 1..Len(hunk) : ~IsHunkHeader(hunk[i])) => changed_lines = <<>>)

\* ---- get_lint_message

\* The candidate of a capture whose three groups hold text: its line number.
HasContent(group) == group # None /\ group[1] # <<>>

CandidateLine(c) == ParseU32(c.line[1])

LineInChangeSet(meta, line) ==
    \E i \in 1..Len(meta.changed_lines) : meta.changed_lines[i].line = line

Accepted == msg_pc = "done" /\ ~lint_message.panicked /\ lint_message.value # None

\* C4: a candidate is accepted if and only if its file, canonicalized, is the
\* ChangeSet's file and its line is the lineNumber of one of the ChangeSet's
\* ChangedLines.
C4_AcceptIffCanonicalFileAndLine ==
    (/\ msg_pc = "done"
     /\ cap.file # None /\ HasContent(cap.line) /\ cap.message # None
     /\ CandidateLine(cap).ok) =>
        (Accepted <=>
            /\ Canonicalize(cap.file[1]) = Some(diff_meta.file)
            /\ LineInChangeSet(diff_meta, CandidateLine(cap).val))

\* C5: an accepted LintMessage takes its source from the ChangeSet's
\* ChangedLine with the candidate's line number (the first one, should several
\* carry that number), never from the match, and its linter, file, line and
\* message are the invoking linter and the candidate's file, line and message.
C5_SourceFromChangeSet ==
    Accepted =>
        LET m == lint_message.value[1]
            n == U32(Decimal(cap.line[1], 0))
            hits == {i \in 1..Len(diff_meta.changed_lines) :
                        diff_meta.changed_lines[i].line = n}
        IN  /\ hits # {}
            /\ m.source = diff_meta.changed_lines[Kth(hits, 1)].source
            /\ m.linter = linter
            /\ m.file = cap.file[1]
            /\ m.line = n
            /\ m.message = cap.message[1]

\* C5 witness: a candidate was accepted against a ChangeSet of several lines
\* whose matching line is not the first, and the match's own text differs
\* from the recorded source.
C5_Witness ==
    /\ Accepted
    /\ Len(diff_meta.changed_lines) >= 2
    /\ diff_meta.changed_lines[1].line # lint_message.value[1].line
    /\ cap.message[1] # lint_message.value[1].source

\* C6: a match whose `line` or `message` group has no content is discarded
\* silently: the call returns None and does not panic.
C6_NoContentIsDiscarded ==
    (msg_pc = "done" /\ (~HasContent(cap.line) \/ ~HasContent(cap.message))) =>
        lint_message = Returned(None)

\* C7: a match with `line` and `message` content and no `file` group is taken
\* to be about the file the invocation targeted, so on a changed line of that
\* file it is accepted.
C7_MissingFileDefaultsToTarget ==
    (/\ msg_pc = "done"
     /\ cap.file = None /\ HasContent(cap.line) /\ HasContent(cap.message)
     /\ CandidateLine(cap).ok
     /\ LineInChangeSet(diff_meta, CandidateLine(cap).val)) =>
        (Accepted /\ lint_message.value[1].file = diff_meta.file)

\* ---- get_lint_output

\* C8: the text returned is the subprocess's standard output when that is
\* non-empty and its standard error otherwise, whatever the exit status.
C8_StdoutElseStderr ==
    (out_pc = "done" /\ proc.spawned) =>
        LET chosen == IF ~IsEmpty(proc.stdout) THEN proc.stdout ELSE proc.stderr
        IN  lint_output = IF chosen.valid THEN Ok(chosen.text) ELSE Err(Utf8Error)

\* C8, the part about the exit status alone: a spawned process never yields
\* an I/O error, whatever its exit status.
C8_ExitStatusIgnored ==
    (out_pc = "done" /\ proc.spawned) => lint_output # Err(IoError)

\* ---- the runs

\* The post-change line numbers of the added lines of diff text d.
AddedLineNumbers(d) == {U32(NewFilePos(d, i)) : i \in AddedIdx(d)}

\* C1: every LintMessage of the result is on a line that the diff of its file
\* adds; a violation on any other line (pre-existing, context or diff
\* file-header line) never reaches the result.
C1_OnlyAddedLinesReported ==
    \A k \in 1..Len(lint_messages) :
        \E i \in 1..Len(changed_files) :
            /\ changed_files[i] = lint_messages[k].file
            /\ diff_texts[i] # None
            /\ lint_messages[k].line \in AddedLineNumbers(diff_texts[i][1])

\* A failure of the kinds C9 names: a linter that cannot be spawned, linter
\* or diff output that is not UTF-8, a "@@" line without "+<digits>".
HasBadHeader(d) ==
    \E i \in 1..Len(d) : IsHunkHeader(d[i]) /\ HunkStartFind(d[i]) = NoMatch

PerUnitFailure ==
    /\ failure # None
    /\ \/ (failure[1].stage = "lint" /\ failure[1].cause \in {IoError, Utf8Error})
       \/ (failure[1].stage = "lines" /\ failure[1].cause = Utf8Error)
       \/ /\ failure[1].stage = "lines"
          /\ failure[1].cause = "panic"
          /\ \E i \in 1..Len(changed_files) :
                /\ changed_files[i] = failure[1].file
                /\ diff_texts[i] # None
                /\ HasBadHeader(diff_texts[i][1])

\* C9: a per-unit failure stays with its unit: the run neither aborts nor
\* panics, and goes on to the other units.
C9_FailureIsConfined == PerUnitFailure => run_pc # "panic"

\* The files of the run once every DiffMeta is there.
Grouped == run_pc \in {"bucket", "tasks", "done", "panic"} /\ NextUnset(diff_metas) = 0

RunFiles == {diff_metas[i][1].file : i \in 1..Len(diff_metas)}

\* A linter applies to a file when its ext list contains the file's
\* extension; none applies to a file without one.
Applies(config, file) == file.ext # None /\ Contains(config.ext, file.ext[1])

HasLinter(file) == \E k \in 1..Len(linters) : Applies(linters[k], file)

\* C10: for the files of an extension no configured linter lists, no linter
\* is invoked, no LintMessage is produced and the bucket is reported as
\* skipped; and files without an extension are in a bucket that is the
\* bucket of no real extension.
C10_UnlintedBucketsSkipped ==
    Grouped =>
        /\ \A f \in RunFiles :
              ~HasLinter(f) =>
                  /\ \A key \in DOMAIN invoked : key[1] # f
                  /\ \A k \in 1..Len(lint_messages) : lint_messages[k].file # f
                  /\ (run_pc = "done" => ExtKey(f) \in skipped)
        /\ \A f, g \in RunFiles : ExtKey(f) = ExtKey(g) => f.ext = g.ext

\* C10, on runs without the literal extension "None": the skipping part is
\* right.
C10_SkippedWithoutNoneExt ==
    (/\ Grouped
     /\ \A f \in RunFiles : f.ext # Some("None")
     /\ \A k \in 1..Len(linters) : ~Contains(linters[k].ext, "None")) =>
        \A f \in RunFiles :
            ~HasLinter(f) =>
                /\ \A key \in DOMAIN invoked : key[1] # f
                /\ \A k \in 1..Len(lint_messages) : lint_messages[k].file # f
                /\ (run_pc = "done" => ExtKey(f) \in skipped)

SeqToBag(xs) == BagAddAll(<<>>, xs)

\* How often the linter was spawned on the file.
Invocations(file, name) ==
    IF <<file, name>> \in DOMAIN invoked THEN invoked[<<file, name>>] ELSE 0

EveryPairOnce ==
    \A f \in RunFiles : \A k \in 1..Len(linters) :
        Applies(linters[k], f) => Invocations(f, linters[k].name) = 1

\* C11: when a run is over, every (file, linter) pair whose linter lists the
\* file's extension has been invoked exactly once, and the result is the
\* multiset union of the LintMessages the pairs accepted, whatever the
\* interleaving of the per-file tasks.
C11_EveryPairOnceNoneLost ==
    (Grouped /\ run_pc \in {"done", "panic"}) =>
        /\ EveryPairOnce
        /\ SeqToBag(lint_messages) = accepted

\* C11, on the runs that return: no pair is left out or repeated and no
\* accepted LintMessage is lost or duplicated.
C11_RightWhenRunReturns ==
    /\ \A key \in DOMAIN invoked : invoked[key] = 1
    /\ run_pc = "done" => (EveryPairOnce /\ SeqToBag(lint_messages) = accepted)

\* ---- the steps of the fold

\* The line the fold is about to process.
AtLine == diff_pc = "fold" /\ pos < Len(hunk)

NextLine == hunk[pos + 1]

Processed == AtLine /\ pos' = pos + 1

\* The step appends exactly one ChangedLine.
AppendsOne ==
    /\ Len(changed_lines') = Len(changed_lines) + 1
    /\ SubSeq(changed_lines', 1, Len(changed_lines)) = changed_lines

\* The effect the counter step is to have on a line that is not a header.
BodyLineEffect ==
    IF StartsWith(NextLine, <<"-">>)
    THEN line_number' = line_number /\ changed_lines' = changed_lines
    ELSE /\ diff_pc' = "fold"
         /\ line_number' = U32Succ(line_number)
         /\ IF StartsWith(NextLine, <<"+">>)
            THEN AppendsOne
            ELSE changed_lines' = changed_lines

\* C12: processing a line that begins with "-" leaves the counter and the
\* emitted sequence unchanged; processing any other line that is not a hunk
\* header adds exactly 1 to the counter, and only an added line appends a
\* ChangedLine.
C12_LineCounterStep ==
    [][(Processed /\ ~IsHunkHeader(NextLine)) => BodyLineEffect]_vars

\* C12, away from the top of the counter's range: the step is right whenever
\* the counter is not 2^32 - 1, which it is only after a header with new
\* start 0 (C14).
C12_RightBelowMax ==
    [][(Processed /\ ~IsHunkHeader(NextLine) /\ line_number # U32Max)
          => BodyLineEffect]_vars

\* A hunk header of the form "@@ -a,b +N,c @@".
HasNewStart(l) == IsHunkHeader(l) /\ HunkStartFind(l) # NoMatch

NonRemoved(l) == ~StartsWith(l, <<"-">>)

\* The number the header of line i gives it: N for the first non-removed
\* line below the header, one more for each further one.
NumberInHunk(h, i) ==
    NewStart(h[HeaderOf(h, i)])
        + Cardinality({j \in (HeaderOf(h, i) + 1)..(i - 1) : NonRemoved(h[j])})

\* The header step: the counter becomes N - 1 and nothing is emitted.
HeaderEffect ==
    /\ diff_pc' = "fold"
    /\ U32Succ(line_number') = U32(NewStart(NextLine))
    /\ changed_lines' = changed_lines

\* Every emitted number is a function of the line's own header and the lines
\* between the two, and the numbers of one hunk increase.
NumberedFromHeader ==
    \A k \in 1..Len(changed_lines) :
        LET i == Kth(PushedIdx(hunk), k)
        IN  /\ (HeaderOf(hunk, i) > 0 /\ HasNewStart(hunk[HeaderOf(hunk, i)])) =>
                   changed_lines[k].line = U32(NumberInHunk(hunk, i))
            /\ \A m \in 1..(k - 1) :
                   HeaderOf(hunk, Kth(PushedIdx(hunk), m)) = HeaderOf(hunk, i) =>
                       U32Less(changed_lines[m].line, changed_lines[k].line)

\* C13: after any prefix of lines a hunk header "@@ -a,b +N,c @@" sets the
\* counter to N - 1 whatever it was and emits nothing, so that the first
\* non-removed line below it is numbered N; the numbers given in a later hunk
\* depend on that hunk's header and the lines below it only, and within one
\* hunk the emitted numbers are strictly increasing.
C13_HunkReset ==
    /\ [][(Processed /\ HasNewStart(NextLine)) => HeaderEffect]_vars
    /\ []NumberedFromHeader

\* C13, for headers whose new start is at least 1: the reset is right.
C13_RightForPositiveStart ==
    /\ [][(Processed /\ HasNewStart(NextLine) /\ NewStart(NextLine) >= 1)
             => HeaderEffect]_vars
    /\ []NumberedFromHeader

\* The step keeps the counter inside 0..2^32 - 1: a header leaves it below
\* its N, an increment leaves it above what it was, and neither panics.
CounterStaysInRange ==
    /\ HasNewStart(NextLine) =>
           /\ diff_pc' = "fold"
           /\ U32Less(line_number', U32(NewStart(NextLine)))
    /\ (~IsHunkHeader(NextLine) /\ NonRemoved(NextLine)) =>
           /\ diff_pc' = "fold"
           /\ U32Less(line_number, line_number')

LineNumbersPositive ==
    \A k \in 1..Len(changed_lines) : U32Less(U32Zero, changed_lines[k].line)

\* C14: for any diff text, a header with new start 0 included, the u32
\* counter neither underflows nor overflows when it is set to N - 1 or
\* incremented, and every emitted ChangedLine has a line number of at least 1.
C14_CounterNeverWraps ==
    /\ [][Processed => CounterStaysInRange]_vars
    /\ []LineNumbersPositive

ZeroStartFree == \A i \in 1..Len(hunk) : hunk[i] # LineHunk0

\* C14, on texts without a header of new start 0: the counter stays in range
\* and the line numbers are positive.
C14_RightWithoutZeroStart ==
    /\ [][(Processed /\ ZeroStartFree) => CounterStaysInRange]_vars
    /\ [](ZeroStartFree => LineNumbersPositive)
====
